---- MODULE Spec2Model ----
(***************************************************************************)
(* State-machine model of src/main.py: the Hacker News "newstories" feed   *)
(* monitor.  One logical task runs main(): it opens the event stream,      *)
(* turns every event into a sorted batch of story ids, filters the ids     *)
(* through the LRU cache, resolves the survivors (api_fetch, then          *)
(* web_fetch, both under the retry wrapper) and prints the result.         *)
(***************************************************************************)
EXTENDS Integers, Sequences, FiniteSets, TLC

\* ---------------------------------------------------------------- bounds
\* LRU(1024) in hackernews_feed, scaled down so that eviction is reachable.
maxsize == 2
\* Story identifiers are 1..MaxId.
MaxId == 3
\* Longest identifier list carried by one stream event.
MaxBatch == 2
\* What the network does to one run: stream events delivered plus
\* exceptions that end an epoch.
MaxEvents == 3

\* ------------------------------------------------------------- constants
FETCH_ATTEMPTS == 3

Ids == 1..MaxId
\* Python's None, shaped like a story so that results compare.
None == [id |-> 0, src |-> "none", time |-> "none"]

VARIABLES
    pc,              \* position of the single task (see the actions)
    cache,           \* LRU keys, least recently touched first
    enable,          \* fetch.enable, the sticky gate flag of this epoch
    event,           \* what is kept of the stream event being processed
    stories,         \* what load_stories has still to yield
    story_id,        \* loop variable of hackernews_feed, 0 between events
    api_results,     \* results of the api_fetch calls of the running retry
    web_results,     \* results of the web_fetch calls of the running retry
    connector_error, \* the last fetch call met a ClientConnectorError
    exc,             \* exception that reached main, "none" when handled
    printed,         \* the last line printed since the current event arrived
    epoch,           \* number of hackernews_feed() calls so far
    batch,           \* events received in this epoch
    events,          \* stream events and epoch-ending exceptions so far
    handed,          \* per id: fetch(id, ...) calls during this cache's life
    evicted,         \* per id: evictions during this cache's life
    recency,         \* ids checked against this cache, least recently checked first
    gated,           \* ids handed to fetch in this epoch while the gate was closed
    timed_out        \* the last fetch call ran into asyncio.TimeoutError

vars == <<pc, cache, enable, event, stories, story_id, api_results,
          web_results, connector_error, exc, printed, epoch, batch, events,
          handed, evicted, recency, gated, timed_out>>

\* ------------------------------------------------------------ sequences
Range(s) == {s[i] : i \in 1..Len(s)}

Last(s) == s[Len(s)]

Remove(s, k) == SelectSeq(s, LAMBDA x : x # k)

RECURSIVE Insert(_, _)
Insert(s, x) ==
    IF s = <<>> THEN <<x>>
    ELSE IF x <= Head(s) THEN <<x>> \o s
    ELSE <<Head(s)>> \o Insert(Tail(s), x)

RECURSIVE Sort(_)
Sort(s) == IF s = <<>> THEN <<>> ELSE Insert(Sort(Tail(s)), Head(s))

SeqsUpTo(S, n) == UNION {[1..k -> S] : k \in 0..n}

\* ------------------------------------------------------------------ LRU
\* OrderedDict.__contains__
Has(c, k) == k \in Range(c)

\* OrderedDict.move_to_end
move_to_end(c, k) == Append(Remove(c, k), k)

\* LRU.__setitem__ that forgets to evict.
SetItemNoEvict(c, k) ==
    IF Has(c, k) THEN move_to_end(c, k) ELSE Append(c, k)

\* LRU.__setitem__
SetItem(c, k) ==
    LET d == IF Has(c, k) THEN move_to_end(c, k) ELSE Append(c, k)
    IN  IF Len(d) > maxsize THEN Tail(d) ELSE d

\* LRU.__contains__ that only looks and never records the key.
ContainsNoInsert(c, k) == IF Has(c, k) THEN move_to_end(c, k) ELSE c

\* LRU.__contains__ that does not refresh recency on a hit.
ContainsNoTouch(c, k) == IF Has(c, k) THEN c ELSE SetItem(c, k)

\* LRU.__contains__: the cache after `k in cache` (its value is Has(c, k)).
Contains(c, k) == IF Has(c, k) THEN move_to_end(c, k) ELSE SetItem(c, k)

\* --------------------------------------------------------------- events
\* event.data: text that is not JSON, the JSON null, or an object whose
\* "data" member is a list of ids in any order.
Payloads ==
    {[kind |-> "malformed", data |-> <<>>], [kind |-> "null", data |-> <<>>]}
    \cup {[kind |-> "dict", data |-> d] : d \in SeqsUpTo(Ids, MaxBatch)}

NoEvent == [kind |-> "none", ascending |-> TRUE]

\* load_stories without the sort.
load_stories_unsorted(p) == IF p.kind = "dict" THEN p.data ELSE <<>>

\* load_stories on a payload json.loads accepts.
load_stories(p) == IF p.kind = "dict" THEN Sort(p.data) ELSE <<>>

\* The event once load_stories has read event.data: the kind of payload it
\* carried and whether the payload listed its ids in ascending order.
Received(p) == [kind |-> p.kind, ascending |-> p.data = Sort(p.data)]

\* ------------------------------------------------------------- fetching
Truthy(r) == r # None

\* One HTTP exchange as the transport reports it.
ApiResponses == {"200 story", "200 null", "non-200", "ClientConnectorError",
                 "TimeoutError"}
WebResponses == {"200 match", "200 no match", "non-200",
                 "ClientConnectorError", "TimeoutError"}

\* The fetch body without `with suppress(ClientConnectorError)`.
RaisesUnsuppressed(resp) ==
    IF resp \in {"TimeoutError", "ClientConnectorError"} THEN resp ELSE "none"

\* A fetch body whose timeout is taken for an empty result as well.
RaisesNothing(resp) == "none"

\* The exception that leaves the body of api_fetch / web_fetch, if any: the
\* connector error is suppressed, a timeout is not.
Raises(resp) == IF resp = "TimeoutError" THEN "TimeoutError" ELSE "none"

\* api_fetch body: resp.json() on 200, else falls off the end.
api_fetch(id, resp) ==
    IF resp = "200 story"
    THEN [id |-> id, src |-> "api", time |-> "source"]
    ELSE None

\* web_fetch that takes the time from the page instead of its argument.
web_fetch_page_time(id, resp) ==
    IF resp = "200 match"
    THEN [id |-> id, src |-> "web", time |-> "source"]
    ELSE None

\* web_fetch body: the dict built from the match on 200, else None.
web_fetch(id, resp) ==
    IF resp = "200 match"
    THEN [id |-> id, src |-> "web", time |-> "timestamp"]
    ELSE None

\* retry without the break.
RetryNoBreak(results) == Len(results) < FETCH_ATTEMPTS

\* retry that gives up one attempt early.
RetryOneFewer(results) ==
    /\ Len(results) < FETCH_ATTEMPTS - 1
    /\ (IF results = <<>> THEN TRUE ELSE ~Truthy(Last(results)))

\* retry: the for loop calls func again.
RetryAgain(results) ==
    /\ Len(results) < FETCH_ATTEMPTS
    /\ (IF results = <<>> THEN TRUE ELSE ~Truthy(Last(results)))

\* retry: `return result`, the result of the last call made.
retry_result(results) == Last(results)

\* fetch that reports an id invalid as soon as api_fetch gives nothing.
after_api_no_fallback(story) == IF Truthy(story) THEN "yield" ELSE "invalid"

\* fetch after `story = await api_fetch(story_id)`.
after_api(story) == IF Truthy(story) THEN "yield" ELSE "web"

\* fetch after `story = await web_fetch(story_id, timestamp)`.
after_web(story) == IF Truthy(story) THEN "yield" ELSE "invalid"

\* getattr(fetch, 'enable', True).
GateDefaultOpen(en) == TRUE

\* getattr(fetch, 'enable', False) with en the attribute, FALSE when unset.
Gate(en) == en

\* main that catches only the connector error.
CaughtConnectorOnly(e) == e = "ClientConnectorError"

\* main's except clause.
Caught(e) == e \in {"TimeoutError", "ClientConnectorError"}

\* Where an exception leaving hackernews_feed takes main.
Landing(e) == IF Caught(e) THEN "backoff" ELSE "crashed"

StoryLine(s) ==
    [kind |-> "story", id |-> s.id, src |-> s.src, time |-> s.time,
     epoch |-> epoch, batch |-> batch]

InvalidLine(id) ==
    [kind |-> "invalid", id |-> id, src |-> "none", time |-> "none",
     epoch |-> epoch, batch |-> batch]

NoLine ==
    [kind |-> "none", id |-> 0, src |-> "none", time |-> "none",
     epoch |-> 0, batch |-> 0]

Zeros == [i \in Ids |-> 0]

\* A cache made by LRU(maxsize), and the function object made by fetcher().
NewCache == <<>>

\* cache = LRU(1024) at the top of hackernews_feed: whatever was there is gone.
FreshCache(c) == NewCache

\* ----------------------------------------------------------------- Init
Init ==
    /\ pc = "main"
    /\ cache = NewCache
    /\ enable = FALSE
    /\ event = NoEvent
    /\ stories = <<>>
    /\ story_id = 0
    /\ api_results = <<>>
    /\ web_results = <<>>
    /\ connector_error = FALSE
    /\ exc = "none"
    /\ printed = NoLine
    /\ epoch = 0
    /\ batch = 0
    /\ events = 0
    /\ handed = Zeros
    /\ evicted = Zeros
    /\ recency = <<>>
    /\ gated = {}
    /\ timed_out = FALSE

----
\* main: `async for story in hackernews_feed()`; the generator builds its
\* cache and its fetch function and starts reading the stream.
StartFeed ==
    /\ pc = "main"
    /\ pc' = "stream"
    /\ epoch' = epoch + 1
    /\ cache' = FreshCache(cache)
    /\ enable' = FALSE
    /\ batch' = 0
    /\ handed' = Zeros
    /\ evicted' = Zeros
    /\ recency' = <<>>
    /\ UNCHANGED <<event, stories, story_id, api_results, web_results,
                   connector_error, exc, printed, events>>
    /\ gated' = {}
    /\ UNCHANGED timed_out

\* aiosseclient yields an event; load_stories decodes it.
StreamEvent(p) ==
    /\ pc = "stream"
    /\ events < MaxEvents
    /\ events' = events + 1
    /\ batch' = batch + 1
    /\ event' = Received(p)
    /\ IF p.kind = "malformed"
       THEN /\ exc' = "JSONDecodeError"
            /\ pc' = Landing("JSONDecodeError")
            /\ UNCHANGED stories
       ELSE /\ stories' = load_stories(p)
            /\ pc' = "loop"
            /\ UNCHANGED exc
    /\ printed' = NoLine
    /\ UNCHANGED <<cache, enable, story_id, api_results, web_results,
                   connector_error, epoch, handed, evicted, recency>>
    /\ UNCHANGED <<gated, timed_out>>

\* aiosseclient raises while connecting or reading.
StreamError(e) ==
    /\ pc = "stream"
    /\ events < MaxEvents
    /\ events' = events + 1
    /\ exc' = e
    /\ pc' = Landing(e)
    /\ UNCHANGED <<cache, enable, event, stories, story_id, api_results,
                   web_results, connector_error, printed, epoch, batch,
                   handed, evicted, recency>>
    /\ UNCHANGED <<gated, timed_out>>

\* main's handler: print "Retrying ...", sleep FIREBASE_TIMEOUT, loop.
Backoff ==
    /\ pc = "backoff"
    /\ pc' = "main"
    /\ exc' = "none"
    /\ connector_error' = FALSE
    /\ api_results' = <<>>
    /\ web_results' = <<>>
    /\ stories' = <<>>
    /\ event' = NoEvent
    /\ story_id' = 0
    /\ UNCHANGED <<cache, enable, printed, epoch, batch, events, handed,
                   evicted, recency>>
    /\ timed_out' = FALSE
    /\ UNCHANGED gated

\* The for loop is exhausted: its else clause opens the gate, and the
\* generator asks the stream for the next event.
LoopEnd ==
    /\ pc = "loop"
    /\ stories = <<>>
    /\ enable' = TRUE
    /\ pc' = "stream"
    /\ event' = NoEvent
    /\ story_id' = 0
    /\ UNCHANGED <<cache, stories, api_results, web_results,
                   connector_error, exc, printed, epoch, batch, events,
                   handed, evicted, recency>>
    /\ UNCHANGED <<gated, timed_out>>

Evictions(c, d) ==
    [i \in Ids |-> IF i \in Range(c) \ Range(d) THEN evicted[i] + 1
                   ELSE evicted[i]]

\* Next id, `story_id in cache` is true: continue.
LoopSeen ==
    /\ pc = "loop"
    /\ stories # <<>>
    /\ Has(cache, Head(stories))
    /\ story_id' = Head(stories)
    /\ stories' = Tail(stories)
    /\ cache' = Contains(cache, Head(stories))
    /\ evicted' = Evictions(cache, cache')
    /\ recency' = Append(Remove(recency, Head(stories)), Head(stories))
    /\ UNCHANGED <<pc, enable, event, api_results, web_results,
                   connector_error, exc, printed, epoch, batch, events,
                   handed>>
    /\ UNCHANGED <<gated, timed_out>>

\* Next id, not in the cache, gate closed: fetch returns at once.
LoopGated ==
    /\ pc = "loop"
    /\ stories # <<>>
    /\ ~Has(cache, Head(stories))
    /\ ~Gate(enable)
    /\ story_id' = Head(stories)
    /\ stories' = Tail(stories)
    /\ cache' = Contains(cache, Head(stories))
    /\ evicted' = Evictions(cache, cache')
    /\ recency' = Append(Remove(recency, Head(stories)), Head(stories))
    /\ handed' = [handed EXCEPT ![Head(stories)] = @ + 1]
    /\ UNCHANGED <<pc, enable, event, api_results, web_results,
                   connector_error, exc, printed, epoch, batch, events>>
    /\ gated' = gated \cup {Head(stories)}
    /\ UNCHANGED timed_out

\* Next id, not in the cache, gate open: fetch enters api_fetch.
LoopFetch ==
    /\ pc = "loop"
    /\ stories # <<>>
    /\ ~Has(cache, Head(stories))
    /\ Gate(enable)
    /\ story_id' = Head(stories)
    /\ stories' = Tail(stories)
    /\ cache' = Contains(cache, Head(stories))
    /\ evicted' = Evictions(cache, cache')
    /\ recency' = Append(Remove(recency, Head(stories)), Head(stories))
    /\ handed' = [handed EXCEPT ![Head(stories)] = @ + 1]
    /\ pc' = "api"
    /\ api_results' = <<>>
    /\ web_results' = <<>>
    /\ UNCHANGED <<enable, event, connector_error, exc, printed, epoch, batch,
                   events>>
    /\ UNCHANGED <<gated, timed_out>>

\* One pass of retry's loop around api_fetch: the call, and the sleep after
\* a falsy result.
ApiCall(resp) ==
    /\ pc = "api"
    /\ RetryAgain(api_results)
    /\ connector_error' = (resp = "ClientConnectorError")
    /\ IF Raises(resp) # "none"
       THEN /\ events < MaxEvents
            /\ events' = events + 1
            /\ exc' = Raises(resp)
            /\ pc' = Landing(Raises(resp))
            /\ UNCHANGED api_results
       ELSE /\ api_results' = Append(api_results, api_fetch(story_id, resp))
            /\ pc' = IF RetryAgain(api_results') THEN "api" ELSE "api_ret"
            /\ UNCHANGED <<exc, events>>
    /\ UNCHANGED <<cache, enable, event, stories, story_id, web_results,
                   printed, epoch, batch, handed, evicted, recency>>
    /\ timed_out' = (resp = "TimeoutError")
    /\ UNCHANGED gated

\* retry returns the last api result to fetch: a story is yielded and
\* announced, anything else sends fetch on to web_fetch.
ApiReturn ==
    /\ pc = "api_ret"
    /\ connector_error' = FALSE
    /\ LET story == retry_result(api_results)
       IN  CASE after_api(story) = "yield" ->
                  /\ printed' = StoryLine(story)
                  /\ pc' = "loop"
                  /\ api_results' = <<>>
             [] after_api(story) = "web" ->
                  /\ pc' = "web"
                  /\ UNCHANGED <<printed, api_results>>
             [] after_api(story) = "invalid" ->
                  /\ printed' = InvalidLine(story_id)
                  /\ pc' = "loop"
                  /\ api_results' = <<>>
    /\ UNCHANGED <<cache, enable, event, stories, story_id, web_results, exc,
                   epoch, batch, events, handed, evicted, recency>>
    /\ UNCHANGED <<gated, timed_out>>

\* One pass of retry's loop around web_fetch.
WebCall(resp) ==
    /\ pc = "web"
    /\ RetryAgain(web_results)
    /\ connector_error' = (resp = "ClientConnectorError")
    /\ IF Raises(resp) # "none"
       THEN /\ events < MaxEvents
            /\ events' = events + 1
            /\ exc' = Raises(resp)
            /\ pc' = Landing(Raises(resp))
            /\ UNCHANGED web_results
       ELSE /\ web_results' = Append(web_results, web_fetch(story_id, resp))
            /\ pc' = IF RetryAgain(web_results') THEN "web" ELSE "web_ret"
            /\ UNCHANGED <<exc, events>>
    /\ UNCHANGED <<cache, enable, event, stories, story_id, api_results,
                   printed, epoch, batch, handed, evicted, recency>>
    /\ timed_out' = (resp = "TimeoutError")
    /\ UNCHANGED gated

\* retry returns the last web result to fetch: a story is yielded and
\* announced, anything else prints INVALID_MSG; the loop goes on.
WebReturn ==
    /\ pc = "web_ret"
    /\ connector_error' = FALSE
    /\ LET story == retry_result(web_results)
       IN  printed' = IF after_web(story) = "yield" THEN StoryLine(story)
                      ELSE InvalidLine(story_id)
    /\ pc' = "loop"
    /\ api_results' = <<>>
    /\ web_results' = <<>>
    /\ UNCHANGED <<cache, enable, event, stories, story_id, exc, epoch, batch,
                   events, handed, evicted, recency>>
    /\ UNCHANGED <<gated, timed_out>>

Next ==
    \/ StartFeed
    \/ \E p \in Payloads : StreamEvent(p)
    \/ \E e \in {"TimeoutError", "ClientConnectorError"} : StreamError(e)
    \/ Backoff
    \/ LoopEnd
    \/ LoopSeen
    \/ LoopGated
    \/ LoopFetch
    \/ \E resp \in ApiResponses : ApiCall(resp)
    \/ ApiReturn
    \/ \E resp \in WebResponses : WebCall(resp)
    \/ WebReturn

Spec == Init /\ [][Next]_vars

\* asyncio.sleep(FIREBASE_TIMEOUT) returns and `while True` calls the feed again.
FairSpec == Spec /\ WF_vars(Backoff) /\ WF_vars(StartFeed)

\* One step of fetch between entering api_fetch and leaving web_fetch.
FetchStep ==
    \/ \E resp \in ApiResponses : ApiCall(resp)
    \/ ApiReturn
    \/ \E resp \in WebResponses : WebCall(resp)
    \/ WebReturn

\* Every HTTP exchange ends (a response, a connector error or the session
\* timeout), every asyncio.sleep(FETCH_RETRY_DELAY) returns, and the task
\* then takes its next step.
FetchFairSpec == Spec /\ WF_vars(FetchStep)

TypeOK ==
    /\ pc \in {"main", "stream", "loop", "api", "api_ret", "web", "web_ret",
               "backoff", "crashed"}
    /\ Range(cache) \subseteq Ids
    /\ enable \in BOOLEAN
    /\ Len(api_results) <= FETCH_ATTEMPTS + 1
    /\ exc \in {"none", "TimeoutError", "ClientConnectorError",
                "JSONDecodeError"}

----
\* ---------------------------------------------------------------- claims
InFetch == pc \in {"api", "api_ret", "web", "web_ret"}
InBatch == pc = "loop" \/ InFetch

AllFalsy(results) == \A i \in 1..Len(results) : ~Truthy(results[i])

\* C1 (as claimed): an identifier is handed to the resolver at most once
\* for the life of the cache, even when it reappears in a later batch.
C1_AtMostOncePerCache == \A i \in Ids : handed[i] <= 1

\* C1 (amended): an identifier is handed to the resolver again only after
\* the LRU policy evicted it: during the life of the cache the number of
\* fetch calls for it never exceeds one plus the number of its evictions.
C1_AtMostOnceUnlessEvicted == \A i \in Ids : handed[i] <= evicted[i] + 1

\* An id handed to fetch earlier in this epoch reappears with the gate open
\* and is skipped: no fetch, no line printed for it.
C1_Witness ==
    /\ pc = "loop"
    /\ enable
    /\ story_id # 0
    /\ handed[story_id] = 1
    /\ evicted[story_id] = 0
    /\ ~(printed.id = story_id /\ printed.epoch = epoch
         /\ printed.batch = batch)

\* C2: after any sequence of membership checks and insertions the cache
\* never holds more than maxsize entries.
C2_CacheBounded == Len(cache) <= maxsize

\* The cache is full and an insertion beyond its capacity has happened.
C2_Witness == Len(cache) = maxsize /\ \E i \in Ids : evicted[i] >= 1

Index(s, x) == CHOOSE i \in 1..Len(s) : s[i] = x

\* Among the keys of c, the one whose last check lies furthest back.
LeastRecentlyTouched(c, rec) ==
    CHOOSE e \in Range(c) :
        \A f \in Range(c) : Index(rec, e) <= Index(rec, f)

\* C3: when the cache is full and a new identifier is inserted, exactly one
\* entry leaves, it is the least recently touched one (lookup hits and
\* insertions both count as touches), and the new identifier stays.
C3_EvictsLeastRecentlyTouched ==
    [][(/\ pc = "loop"
        /\ stories # <<>>
        /\ ~Has(cache, Head(stories))
        /\ Len(cache) = maxsize)
       => /\ Range(cache') =
               (Range(cache) \ {LeastRecentlyTouched(cache, recency)})
               \cup {Head(stories)}
          /\ Len(cache') = maxsize
          /\ Has(cache', Head(stories))]_vars

\* A full cache has lost one key to an eviction while a key with a smaller
\* id, inserted once and never evicted, is still there.
C3_Witness ==
    \E i, j \in Ids :
        /\ i < j
        /\ evicted[j] = 1 /\ ~Has(cache, j)
        /\ Has(cache, i) /\ handed[i] = 1 /\ evicted[i] = 0
        /\ Len(cache) = maxsize

C5_FallbackThenInvalid ==
    [][/\ (/\ pc \in {"api", "api_ret"}
           /\ Len(api_results) >= FETCH_ATTEMPTS
           /\ AllFalsy(SubSeq(api_results, 1, FETCH_ATTEMPTS)))
          => /\ enable
             /\ pc' = "web"
             /\ web_results' = <<>>
             /\ printed' = printed
             /\ story_id' = story_id
       /\ (/\ pc \in {"web", "web_ret"}
           /\ Len(web_results) >= FETCH_ATTEMPTS
           /\ AllFalsy(SubSeq(web_results, 1, FETCH_ATTEMPTS)))
          => /\ printed' = InvalidLine(story_id)
             /\ pc' = "loop"
             /\ stories' = stories
             /\ exc' = "none"]_vars

\* Both resolvers gave up on an id and the rest of the batch is still to do.
C5_Witness ==
    /\ pc = "loop"
    /\ printed = InvalidLine(story_id)
    /\ stories # <<>>

\* (epoch, batch, id) of line a comes before that of line b.
LineBefore(a, b) ==
    \/ a.kind = "none"
    \/ a.epoch < b.epoch
    \/ a.epoch = b.epoch /\ a.batch < b.batch
    \/ a.epoch = b.epoch /\ a.batch = b.batch /\ a.id < b.id

\* C6: lines are printed in ascending id order within a batch, whatever the
\* order of the ids in the event, and batch by batch in arrival order: a
\* line belongs to the event that arrived last, follows the line printed
\* before it and precedes the ids still to come.
C6_EmissionOrder ==
    [][(InFetch /\ pc' = "loop")
       => /\ printed'.epoch = epoch /\ printed'.batch = batch
          /\ LineBefore(printed, printed')
          /\ \A i \in 1..Len(stories) : printed'.id <= stories[i]]_vars

\* An event listed its ids out of order and the batch ended with the line
\* of the id taken last, the largest of the batch.
C6_Witness ==
    /\ pc = "loop"
    /\ stories = <<>>
    /\ ~event.ascending
    /\ printed.epoch = epoch /\ printed.batch = batch
    /\ printed.id = story_id

\* C7: the cache survives a disruption: every id that was in it before is
\* still treated as seen when the next epoch starts.
C7_CacheSurvivesReconnect ==
    [][pc = "main" => \A i \in Range(cache) : Has(cache', i)]_vars

\* C8: a TimeoutError or ClientConnectorError is never fatal: main lands in
\* its handler, and after the backoff a new stream connection is opened.
C8_DisruptionRecovers ==
    /\ [](exc \in {"TimeoutError", "ClientConnectorError"} => pc = "backoff")
    /\ (exc \in {"TimeoutError", "ClientConnectorError"})
         ~> (pc = "stream" /\ exc = "none")

\* A second epoch is reading the stream after the first one was disrupted.
C8_Witness == pc = "stream" /\ epoch >= 2 /\ exc = "none" /\ batch = 0

FirstTruthy(results) ==
    IF AllFalsy(results) THEN None
    ELSE results[CHOOSE i \in 1..Len(results) :
                    /\ Truthy(results[i])
                    /\ AllFalsy(SubSeq(results, 1, i - 1))]

RetryOK(ret, results) ==
    /\ Len(results) <= FETCH_ATTEMPTS
    /\ AllFalsy(SubSeq(results, 1, Len(results) - 1))
    /\ ret => /\ Len(results) >= 1
              /\ AllFalsy(results) => Len(results) = FETCH_ATTEMPTS
              /\ retry_result(results) = FirstTruthy(results)

\* C9: retry calls the wrapped function at most FETCH_ATTEMPTS times, never
\* again after a truthy result, which is what it returns; when every call
\* came back empty it has made all its attempts and returns an empty result.
C9_RetryBounded ==
    /\ RetryOK(pc = "api_ret", api_results)
    /\ RetryOK(pc = "web_ret", web_results)

\* retry returns the story of its second call, having stopped there.
C9_Witness ==
    /\ pc = "web_ret"
    /\ Len(web_results) = 2
    /\ Truthy(retry_result(web_results))

\* C10: a ClientConnectorError inside api_fetch or web_fetch is swallowed:
\* the call counts as one attempt with an empty result, nothing reaches main
\* and the batch goes on.
C10_ConnectorErrorSwallowed ==
    [][/\ (pc = "api" /\ connector_error')
          => /\ api_results' = Append(api_results, None)
             /\ pc' \in {"api", "api_ret"}
       /\ (pc = "web" /\ connector_error')
          => /\ web_results' = Append(web_results, None)
             /\ pc' \in {"web", "web_ret"}
       /\ connector_error'
          => /\ exc' = "none"
             /\ stories' = stories
             /\ story_id' = story_id]_vars

\* The third web_fetch attempt of an id ended in a connection failure and
\* retry returns to fetch.
C10_Witness ==
    /\ connector_error
    /\ pc = "web_ret"
    /\ Len(web_results) = FETCH_ATTEMPTS

\* C11: a stream event whose payload cannot be decoded is treated as an
\* empty result: nothing is raised past main and the pipeline goes on.
C11_MalformedEventSkipped ==
    event.kind = "malformed" => (exc = "none" /\ pc # "crashed")

\* C12: `id in cache` is one check-and-insert: it answers true exactly when
\* the id was there before (the loop then skips the id without calling
\* fetch), the id is in the cache afterwards in both cases, as its most
\* recent key, and no other key is added.
C12_CheckAndInsert ==
    [][(pc = "loop" /\ stories # <<>>)
       => LET k == Head(stories)
          IN  /\ Has(cache', k)
              /\ Last(cache') = k
              /\ Range(cache') \subseteq Range(cache) \cup {k}
              /\ Has(cache, k) <=> (handed' = handed /\ pc' = "loop")
              /\ Has(cache, k) => Range(cache') = Range(cache)]_vars

\* With the gate open a check hit an id that was in a full cache: it is now
\* the most recent key and nothing was fetched or printed for it.
C12_Witness ==
    /\ pc = "loop"
    /\ enable
    /\ story_id # 0
    /\ Len(cache) = maxsize
    /\ Last(cache) = story_id
    /\ handed[story_id] = 1
    /\ printed = NoLine

\* C13: the gate opens only when the first non-empty batch of the epoch has
\* been processed: while the gate is open, some id has been checked against
\* the cache in this epoch.
C13_GateWaitsForNonEmptyBatch == enable => recency # <<>>

\* C14 (as claimed): an id of the gated first batch is never resolved,
\* printed or reported invalid when it reappears later in the same epoch.
C14_GatedNeverResurfaces ==
    /\ InFetch => story_id \notin gated
    /\ (printed.kind # "none" /\ printed.epoch = epoch)
       => printed.id \notin gated

\* C14 (amended): every id of the gated batch is put into the cache and
\* stays out of the resolver and the output for as long as the LRU policy
\* has not evicted it.
C14_GatedPrimesCache ==
    /\ \A i \in gated : evicted[i] = 0 => Has(cache, i)
    /\ InFetch => (story_id \notin gated \/ evicted[story_id] >= 1)
    /\ (printed.kind # "none" /\ printed.epoch = epoch)
       => (printed.id \notin gated \/ evicted[printed.id] >= 1)

\* An id of the gated batch came again with the gate open and was skipped.
C14_Witness ==
    /\ pc = "loop"
    /\ enable
    /\ batch >= 2
    /\ story_id \in gated
    /\ evicted[story_id] = 0
    /\ printed.id # story_id

GatedMiss == pc = "loop" /\ stories # <<>> /\ ~Has(cache, Head(stories))
                /\ ~enable

\* C15 (as claimed): while the gate is closed the resolvers are still
\* invoked for every id not yet seen: such an id enters api_fetch.
C15_GatedStillResolves == [][GatedMiss => pc' = "api"]_vars

\* C15 (amended): while the gate is closed fetch is still called for every
\* id not yet seen and the id is recorded in the cache, but fetch returns at
\* once: neither resolver is invoked, nothing is printed and the loop goes
\* on; the resolvers run only with the gate open.
C15_GatedSkipsResolvers ==
    /\ [](InFetch => enable)
    /\ [][GatedMiss
          => /\ handed'[Head(stories)] = handed[Head(stories)] + 1
             /\ Has(cache', Head(stories))
             /\ pc' = "loop"
             /\ api_results' = <<>> /\ web_results' = <<>>
             /\ printed' = printed
             /\ stories' = Tail(stories)]_vars

\* The gated batch is done: its last id went to fetch and into the cache,
\* no resolver result exists and nothing was printed.
C15_Witness ==
    /\ pc = "loop"
    /\ ~enable
    /\ stories = <<>>
    /\ story_id \in gated
    /\ Has(cache, story_id)
    /\ api_results = <<>> /\ web_results = <<>>
    /\ printed = NoLine

\* C16: web_fetch is a pure fallback: it is entered only after api_fetch
\* was called FETCH_ATTEMPTS times for the id and came back empty every
\* time; once an api_fetch call succeeds no web_fetch call is made for the
\* id and the line printed is the api story.
C16_ScrapeOnlyAfterApiExhausted ==
    /\ []((pc \in {"web", "web_ret"} \/ web_results # <<>>)
          => /\ Len(api_results) = FETCH_ATTEMPTS
             /\ AllFalsy(api_results))
    /\ [][(~AllFalsy(api_results) \/ ~AllFalsy(api_results'))
          => /\ pc' \in {"api_ret", "loop"}
             /\ web_results' = <<>>
             /\ pc' = "loop"
                => printed' = StoryLine(FirstTruthy(api_results))]_vars

\* The scrape resolver delivered on its first call after three empty
\* api_fetch calls.
C16_Witness ==
    /\ pc = "web_ret"
    /\ Len(api_results) = FETCH_ATTEMPTS
    /\ Len(web_results) = 1
    /\ retry_result(web_results).src = "web"

\* C17 (as claimed): every story printed, from either resolver, carries the
\* timestamp taken when fetch was called for its id.
C17_TimeIsFetchTimestamp ==
    printed.kind = "story" => printed.time = "timestamp"

\* C17 (amended): a story built by web_fetch carries the timestamp taken
\* when fetch was called; a story returned by api_fetch is the decoded body
\* of the source and carries the time the source delivered.
C17_TimeByResolver ==
    printed.kind = "story"
    => /\ printed.src \in {"api", "web"}
       /\ printed.src = "web" => printed.time = "timestamp"
       /\ printed.src = "api" => printed.time = "source"

\* A story of the scrape resolver was printed with the fetch timestamp.
C17_Witness ==
    /\ printed.kind = "story"
    /\ printed.src = "web"
    /\ printed.time = "timestamp"
    /\ printed.id = story_id

\* The one line that ends the resolution of story_id: a story if a resolver
\* call delivered one, the invalid notice if all of them came back empty.
Outcome(line) ==
    /\ line.id = story_id
    /\ line.epoch = epoch /\ line.batch = batch
    /\ line.kind \in {"story", "invalid"}
    /\ line.kind = "invalid"
       <=> (/\ Len(api_results) = FETCH_ATTEMPTS /\ AllFalsy(api_results)
            /\ Len(web_results) = FETCH_ATTEMPTS /\ AllFalsy(web_results))

C19_FetchTimeoutEndsEpoch ==
    /\ [](timed_out => (pc = "backoff" /\ exc = "TimeoutError"))
    /\ [][timed_out'
          => /\ InFetch
             /\ api_results' = api_results
             /\ web_results' = web_results
             /\ printed' = printed]_vars
    /\ [][timed_out
          => /\ pc' = "main"
             /\ stories' = <<>>
             /\ printed' = printed
             /\ epoch' = epoch]_vars
    /\ [][pc = "main"
          => /\ pc' = "stream"
             /\ epoch' = epoch + 1
             /\ printed' = printed]_vars
    /\ timed_out ~> (pc = "stream" /\ ~timed_out /\ batch = 0)

\* A fetch timed out while further ids of the batch were still waiting.
C19_Witness ==
    /\ timed_out
    /\ pc = "backoff"
    /\ stories # <<>>
    /\ Len(api_results) = FETCH_ATTEMPTS
    /\ Len(web_results) = 1
====
